---------------------------- MODULE Spec2Model ----------------------------
(***************************************************************************)
(* RoadNetworkPartitioning: the partition-quality script                   *)
(* (Scripts/partitions_quality.py) and the synthetic graph generator       *)
(* (Scripts/generate_geojson.py).                                          *)
(*                                                                         *)
(* A text file is a sequence of lines; a line is the sequence of the       *)
(* '"init_node": <digits/dots>' and '"term_node": <digits/dots>' tokens    *)
(* that occur in it, left to right (everything else on the line can never  *)
(* match either regular expression).  A token keeps the raw text the       *)
(* group ([\d.]+) captures: "1" and "1.0" are different texts.             *)
(* A Python dict is an association list in insertion order.                *)
(***************************************************************************)
EXTENDS Integers, Sequences, FiniteSets, TLC

VARIABLES
    files,               \* contents of the partition files, in the order of the list `files`
    original_graph_file, \* content of the original graph file
    pc,                  \* position of the script
    nodes_by_partition,  \* dict: partition file path -> its unique node texts
    node_counts,         \* dict: partition file path -> number of nodes
    diff,                \* max - min of node_counts
    cut_edges_count,     \* dict: partition file path -> cut edges counted so far
    graph_data,          \* the lines readlines() returned
    line_no,             \* index of the next line of graph_data to scan
    max_partition,       \* path of the partition with most cut edges, or None
    out,                 \* what the script has printed
    exc,                 \* the exception that ended the script, or None
    num_nodes,           \* generate_geojson: argument
    num_edges,           \* generate_geojson: argument
    gen_pc,              \* generate_geojson: position
    edges,               \* generate_geojson: the set `edges`
    features,            \* generate_geojson: geojson["features"]
    gen_exc              \* generate_geojson: the exception raised, or None

qvars == <<files, original_graph_file, pc, nodes_by_partition, node_counts, diff,
           cut_edges_count, graph_data, line_no, max_partition, out, exc>>
gvars == <<num_nodes, num_edges, gen_pc, edges, features, gen_exc>>
vars == <<qvars, gvars>>

----------------------------------------------------------------------------
(* Bounds of the checked instances *)

MaxFiles == 3
MaxLines == 2
LayoutFiles == 2
LayoutLines == 1
LayoutTokens == 2
MaxGenNodes == 4
MaxGenEdges == 3

----------------------------------------------------------------------------
(* Values *)

None == "None"

(* A file: its lines, or a file that open() or the decoder raises on *)
File(lines) == [ok |-> TRUE, lines |-> lines]
Unreadable == [ok |-> FALSE, lines |-> <<>>]

PathNames ==
    <<"Partition0_0.geojson", "Partition0_1.geojson", "Partition0_2.geojson",
      "Partition0_3.geojson", "Partition0_4.geojson", "Partition0_5.geojson",
      "Partition0_6.geojson", "Partition0_7.geojson">>

Tok(label, text) == [label |-> label, text |-> text]

SeqsUpTo(S, n) == UNION {[1..k -> S] : k \in 0..n}

----------------------------------------------------------------------------
(* dict *)

EmptyDict == <<>>
Keys(d) == {d[i].k : i \in 1..Len(d)}
Values(d) == {d[i].v : i \in 1..Len(d)}
Has(d, key) == \E i \in 1..Len(d) : d[i].k = key
Get(d, key) == d[CHOOSE i \in 1..Len(d) : d[i].k = key].v
Put(d, key, val) ==
    IF Has(d, key)
    THEN [i \in 1..Len(d) |-> IF d[i].k = key THEN [k |-> key, v |-> val] ELSE d[i]]
    ELSE Append(d, [k |-> key, v |-> val])

SetMax(S) == CHOOSE x \in S : \A y \in S : y <= x
SetMin(S) == CHOOSE x \in S : \A y \in S : x <= y

(* max() keeping the last of several maxima *)
RECURSIVE MaxKeyFromLast(_, _, _)
MaxKeyFromLast(d, i, best) ==
    IF i > Len(d) THEN d[best].k
    ELSE MaxKeyFromLast(d, i + 1, IF d[i].v >= d[best].v THEN i ELSE best)

(* max(d, key=d.get): the first key, in iteration order, whose value no later *)
(* key exceeds; `best` is replaced only by a strictly greater value.          *)
RECURSIVE MaxKeyFrom(_, _, _)
MaxKeyFrom(d, i, best) ==
    IF i > Len(d) THEN d[best].k
    ELSE MaxKeyFrom(d, i + 1, IF d[i].v > d[best].v THEN i ELSE best)

MaxKey(d) == MaxKeyFrom(d, 2, 1)

----------------------------------------------------------------------------
(* re.search(r'"<label>":\s*([\d.]+)', line): the first match on the line *)

NoMatch == "NoMatch"

RECURSIVE SearchFrom(_, _, _)
SearchFrom(line, label, i) ==
    IF i > Len(line) THEN NoMatch
    ELSE IF line[i].label = label THEN line[i].text
    ELSE SearchFrom(line, label, i + 1)

Search(line, label) == SearchFrom(line, label, 1)

----------------------------------------------------------------------------
(* extract_unique_nodes_from_multiple_files *)

LineNodes(line) ==
    LET match_init == Search(line, "init_node")
        match_term == Search(line, "term_node")
    IN  (IF match_init # NoMatch THEN {match_init} ELSE {})
        \cup (IF match_term # NoMatch THEN {match_term} ELSE {})

RECURSIVE FileNodes(_, _, _)
FileNodes(lines, i, unique_nodes_set) ==
    IF i > Len(lines) THEN unique_nodes_set
    ELSE FileNodes(lines, i + 1, unique_nodes_set \cup LineNodes(lines[i]))

(* The loop over `files` inside the single try block: the first file that *)
(* raises ends the loop, and the except clause returns all_nodes as it is. *)
RECURSIVE ExtractFrom(_, _, _)
ExtractFrom(fs, i, all_nodes) ==
    IF i > Len(fs) THEN all_nodes
    ELSE IF ~fs[i].ok THEN all_nodes
    ELSE ExtractFrom(fs, i + 1,
                     Put(all_nodes, PathNames[i], FileNodes(fs[i].lines, 1, {})))

ExtractRaised(fs) == \E i \in 1..Len(fs) : ~fs[i].ok

extract_unique_nodes_from_multiple_files(fs) == ExtractFrom(fs, 1, EmptyDict)


----------------------------------------------------------------------------
(* count_nodes_in_partitions_and_diff *)

RECURSIVE CountNodesFrom(_, _, _)
CountNodesFrom(nbp, i, counts) ==
    IF i > Len(nbp) THEN counts
    ELSE CountNodesFrom(nbp, i + 1, Put(counts, nbp[i].k, Cardinality(nbp[i].v)))

CountNodes(nbp) == CountNodesFrom(nbp, 1, EmptyDict)

(* max() and min() of an empty sequence raise ValueError *)
BalanceRaises(nbp) == Values(CountNodes(nbp)) = {}

(* the first count minus the last, as if the counts were sorted *)
BalanceDiffFirstLast(nbp) ==
    LET counts == CountNodes(nbp)
    IN  IF counts[1].v >= counts[Len(counts)].v
        THEN counts[1].v - counts[Len(counts)].v
        ELSE counts[Len(counts)].v - counts[1].v

BalanceDiff(nbp) ==
    LET max_nodes == SetMax(Values(CountNodes(nbp)))
        min_nodes == SetMin(Values(CountNodes(nbp)))
    IN  max_nodes - min_nodes

----------------------------------------------------------------------------
(* count_edges_in_cut_and_max_partition *)

ZeroCounts(nbp) == [i \in 1..Len(nbp) |-> [k |-> nbp[i].k, v |-> 0]]

(* the if without its elif *)
CountsAsCutInitOnly(init_node, term_node, nodes) ==
    init_node \in nodes /\ term_node \notin nodes

(* the if / elif of one partition for one edge *)
CountsAsCut(init_node, term_node, nodes) ==
    IF init_node \in nodes /\ term_node \notin nodes THEN TRUE
    ELSE IF term_node \in nodes /\ init_node \notin nodes THEN TRUE
    ELSE FALSE

(* the loop over the partitions leaving at the first partition it counts for *)
RECURSIVE ScanPartitionsFromBreak(_, _, _, _, _)
ScanPartitionsFromBreak(counts, nbp, init_node, term_node, i) ==
    IF i > Len(nbp) THEN counts
    ELSE IF CountsAsCut(init_node, term_node, nbp[i].v)
    THEN Put(counts, nbp[i].k, Get(counts, nbp[i].k) + 1)
    ELSE ScanPartitionsFromBreak(counts, nbp, init_node, term_node, i + 1)

RECURSIVE ScanPartitionsFrom(_, _, _, _, _)
ScanPartitionsFrom(counts, nbp, init_node, term_node, i) ==
    IF i > Len(nbp) THEN counts
    ELSE ScanPartitionsFrom(
             IF CountsAsCut(init_node, term_node, nbp[i].v)
             THEN Put(counts, nbp[i].k, Get(counts, nbp[i].k) + 1)
             ELSE counts,
             nbp, init_node, term_node, i + 1)

(* the body of `for line in graph_data` *)
ScanLine(counts, nbp, line) ==
    LET match_init == Search(line, "init_node")
        match_term == Search(line, "term_node")
    IN  IF match_init # NoMatch /\ match_term # NoMatch
        THEN ScanPartitionsFrom(counts, nbp, match_init, match_term, 1)
        ELSE counts

(* max() of an empty dict raises ValueError, which the except clause catches *)
ArgmaxOrNone(counts) == IF Len(counts) = 0 THEN None ELSE MaxKey(counts)

----------------------------------------------------------------------------
(* What the script prints *)

Printed(what, file, n) == [what |-> what, file |-> file, n |-> n]

PrintDict(what, d) == [i \in 1..Len(d) |-> Printed(what, d[i].k, d[i].v)]

----------------------------------------------------------------------------
(* The script, top to bottom *)

Extract ==
    /\ pc = "extract"
    /\ nodes_by_partition' = extract_unique_nodes_from_multiple_files(files)
    /\ out' = IF ExtractRaised(files)
              THEN Append(out, Printed("Error processing files", None, 0))
              ELSE out
    /\ pc' = "balance"
    /\ UNCHANGED <<files, original_graph_file, node_counts, diff, cut_edges_count,
                   graph_data, line_no, max_partition, exc, gvars>>

Balance ==
    /\ pc = "balance"
    /\ IF BalanceRaises(nodes_by_partition)
       THEN /\ exc' = "ValueError"
            /\ pc' = "crashed"
            /\ UNCHANGED <<node_counts, diff, out>>
       ELSE /\ node_counts' = CountNodes(nodes_by_partition)
            /\ diff' = BalanceDiff(nodes_by_partition)
            /\ out' = Append(out \o PrintDict("Number of nodes in", node_counts'),
                             Printed("Difference", None, diff'))
            /\ pc' = "cut"
            /\ UNCHANGED exc
    /\ UNCHANGED <<files, original_graph_file, nodes_by_partition, cut_edges_count,
                   graph_data, line_no, max_partition, gvars>>

(* the argmax taken outside the try block, also after a failed read *)
CutOpenArgmax ==
    /\ pc = "cut"
    /\ cut_edges_count' = ZeroCounts(nodes_by_partition)
    /\ IF ~original_graph_file.ok
       THEN /\ out' = Append(out, Printed("Error processing the original graph file", None, 0))
            /\ max_partition' = ArgmaxOrNone(cut_edges_count')
            /\ pc' = "report"
            /\ UNCHANGED <<graph_data, line_no>>
       ELSE /\ graph_data' = original_graph_file.lines
            /\ line_no' = 1
            /\ pc' = "scan"
            /\ UNCHANGED <<out, max_partition>>
    /\ UNCHANGED <<files, original_graph_file, nodes_by_partition, node_counts, diff,
                   exc, gvars>>

CutOpen ==
    /\ pc = "cut"
    /\ cut_edges_count' = ZeroCounts(nodes_by_partition)
    /\ IF ~original_graph_file.ok
       THEN /\ out' = Append(out, Printed("Error processing the original graph file", None, 0))
            /\ max_partition' = None
            /\ pc' = "report"
            /\ UNCHANGED <<graph_data, line_no>>
       ELSE /\ graph_data' = original_graph_file.lines
            /\ line_no' = 1
            /\ pc' = "scan"
            /\ UNCHANGED <<out, max_partition>>
    /\ UNCHANGED <<files, original_graph_file, nodes_by_partition, node_counts, diff,
                   exc, gvars>>

CutScan ==
    /\ pc = "scan"
    /\ line_no <= Len(graph_data)
    /\ cut_edges_count' = ScanLine(cut_edges_count, nodes_by_partition, graph_data[line_no])
    /\ line_no' = line_no + 1
    /\ UNCHANGED <<files, original_graph_file, pc, nodes_by_partition, node_counts, diff,
                   graph_data, max_partition, out, exc, gvars>>

CutArgmax ==
    /\ pc = "scan"
    /\ line_no > Len(graph_data)
    /\ max_partition' = ArgmaxOrNone(cut_edges_count)
    /\ out' = IF Len(cut_edges_count) = 0
              THEN Append(out, Printed("Error processing the original graph file", None, 0))
              ELSE out
    /\ pc' = "report"
    /\ UNCHANGED <<files, original_graph_file, nodes_by_partition, node_counts, diff,
                   cut_edges_count, graph_data, line_no, exc, gvars>>

Report ==
    /\ pc = "report"
    /\ IF Has(cut_edges_count, max_partition)
       THEN /\ out' = Append(out \o PrintDict("Number of cut edges in", cut_edges_count),
                             Printed("The partition with the most cut edges is",
                                     max_partition, Get(cut_edges_count, max_partition)))
            /\ pc' = "done"
            /\ UNCHANGED exc
       ELSE /\ out' = out \o PrintDict("Number of cut edges in", cut_edges_count)
            /\ exc' = "KeyError"
            /\ pc' = "crashed"
    /\ UNCHANGED <<files, original_graph_file, nodes_by_partition, node_counts, diff,
                   cut_edges_count, graph_data, line_no, max_partition, gvars>>

Next == Extract \/ Balance \/ CutOpen \/ CutScan \/ CutArgmax \/ Report


----------------------------------------------------------------------------
(* generate_geojson(num_nodes, num_edges).  The random coordinates, capacity *)
(* and length of a feature take no part in which edges are produced and are  *)
(* left out of a feature.                                                    *)

MaxEdgesFor(n) == (n * (n - 1)) \div 2

TooManyEdges(n, m) == m > MaxEdgesFor(n)

(* the test without the reversed pair *)
IsNewEdgeDirected(es, init_node, term_node) == <<init_node, term_node>> \notin es

IsNewEdge(es, init_node, term_node) ==
    <<init_node, term_node>> \notin es /\ <<term_node, init_node>> \notin es

Feature(fid, edge) == [fid |-> fid, init_node |-> edge[1], term_node |-> edge[2]]

(* enumerate(edges, start=1): the set is iterated in an order of its own *)
Enumerations(es) ==
    {f \in [1..Cardinality(es) -> es] : \A i, j \in 1..Cardinality(es) : f[i] = f[j] => i = j}

GenValidate ==
    /\ gen_pc = "validate"
    /\ IF TooManyEdges(num_nodes, num_edges)
       THEN gen_pc' = "raised" /\ gen_exc' = "ValueError"
       ELSE gen_pc' = "sample" /\ UNCHANGED gen_exc
    /\ UNCHANGED <<num_nodes, num_edges, edges, features, qvars>>

GenSample ==
    /\ gen_pc = "sample"
    /\ Cardinality(edges) < num_edges
    /\ \E init_node \in 1..num_nodes, term_node \in 1..num_nodes :
          /\ init_node # term_node
          /\ edges' = IF IsNewEdge(edges, init_node, term_node)
                      THEN edges \cup {<<init_node, term_node>>}
                      ELSE edges
    /\ UNCHANGED <<num_nodes, num_edges, gen_pc, features, gen_exc, qvars>>

GenFeatures ==
    /\ gen_pc = "sample"
    /\ ~(Cardinality(edges) < num_edges)
    /\ \E order \in Enumerations(edges) :
          features' = [fid \in 1..Cardinality(edges) |-> Feature(fid, order[fid])]
    /\ gen_pc' = "returned"
    /\ UNCHANGED <<num_nodes, num_edges, edges, gen_exc, qvars>>

NextGen == GenValidate \/ GenSample \/ GenFeatures

----------------------------------------------------------------------------
(* Inputs *)

NodeTexts == {"1", "2"}

RECURSIVE SetToSeq(_)
SetToSeq(S) ==
    IF S = {} THEN <<>>
    ELSE LET x == CHOOSE y \in S : TRUE IN <<x>> \o SetToSeq(S \ {x})

(* A partition file with one field per line, naming exactly the nodes of S *)
NodeFile(S) ==
    LET texts == SetToSeq(S)
    IN  File([i \in 1..Len(texts) |->
                 <<Tok(IF i % 2 = 1 THEN "init_node" ELSE "term_node", texts[i])>>])

PartitionFiles == {NodeFile(S) : S \in SUBSET NodeTexts}

(* A line of the original graph: blank, one field alone, or a record with both *)
(* fields.  A field alone never makes an edge, whatever its text: one text      *)
(* stands for all.                                                              *)
RecordLines(texts) ==
    LET alone == CHOOSE t \in texts : TRUE
    IN  {<<>>, <<Tok("init_node", alone)>>, <<Tok("term_node", alone)>>}
        \cup {<<Tok("init_node", a), Tok("term_node", b)>> : a \in texts, b \in texts}

GraphFiles == {Unreadable} \cup {File(ls) : ls \in SeqsUpTo(RecordLines(NodeTexts), MaxLines)}

QualityIdle ==
    /\ files = <<>>
    /\ original_graph_file = Unreadable
    /\ pc = "idle"
    /\ nodes_by_partition = EmptyDict
    /\ node_counts = EmptyDict
    /\ diff = 0
    /\ cut_edges_count = EmptyDict
    /\ graph_data = <<>>
    /\ line_no = 0
    /\ max_partition = None
    /\ out = <<>>
    /\ exc = None

GenIdle ==
    /\ num_nodes = 0
    /\ num_edges = 0
    /\ gen_pc = "idle"
    /\ edges = {}
    /\ features = <<>>
    /\ gen_exc = None

InitWith(partitionLists, graphFiles) ==
    /\ files \in partitionLists
    /\ original_graph_file \in graphFiles
    /\ pc = "extract"
    /\ nodes_by_partition = EmptyDict
    /\ node_counts = EmptyDict
    /\ diff = 0
    /\ cut_edges_count = EmptyDict
    /\ graph_data = <<>>
    /\ line_no = 0
    /\ max_partition = None
    /\ out = <<>>
    /\ exc = None
    /\ GenIdle

Init == InitWith(SeqsUpTo(PartitionFiles, MaxFiles), GraphFiles)

Spec == Init /\ [][Next]_vars

InitGen ==
    /\ num_nodes \in 0..MaxGenNodes
    /\ num_edges \in 0..MaxGenEdges
    /\ gen_pc = "validate"
    /\ edges = {}
    /\ features = <<>>
    /\ gen_exc = None
    /\ QualityIdle

SpecGen == InitGen /\ [][NextGen]_vars


(* Partition files in any layout, unreadable ones among them; node ids written *)
(* with and without a fractional part                                          *)
LayoutTexts == {"1", "1.0", "2"}

Tokens(texts) == {Tok(l, t) : l \in {"init_node", "term_node"}, t \in texts}

LayoutPartitionFiles ==
    {Unreadable}
    \cup {File(ls) : ls \in SeqsUpTo(SeqsUpTo(Tokens(LayoutTexts), LayoutTokens), LayoutLines)}

LayoutGraphFiles ==
    {Unreadable} \cup {File(ls) : ls \in SeqsUpTo(RecordLines(LayoutTexts), LayoutLines)}

InitFiles == InitWith(SeqsUpTo(LayoutPartitionFiles, LayoutFiles), LayoutGraphFiles)

SpecFiles == InitFiles /\ [][Next]_vars

----------------------------------------------------------------------------
(* Vocabulary of the properties *)

Returned == pc \in {"report", "done"}    \* count_edges_in_cut_and_max_partition has returned
GraphRead == original_graph_file.ok
Partitions == 1..Len(nodes_by_partition)
Label(i) == nodes_by_partition[i].k
NodeSet(i) == nodes_by_partition[i].v
Counter(i) == Get(cut_edges_count, Label(i))

(* line holds the record of an edge from u to v *)
IsEdge(line, u, v) ==
    \E i, j \in 1..Len(line) : line[i] = Tok("init_node", u) /\ line[j] = Tok("term_node", v)

ExactlyOne(u, v, S) == (u \in S) # (v \in S)

(* line holds the record of an edge with exactly one endpoint in S *)
IsCutEdge(line, S) ==
    \E i, j \in 1..Len(line) :
        /\ line[i].label = "init_node"
        /\ line[j].label = "term_node"
        /\ ExactlyOne(line[i].text, line[j].text, S)

AllTexts == NodeTexts \cup LayoutTexts

(* C1: when the graph was read, the counter returned for every partition P is  *)
(* the number of edges of the graph with exactly one endpoint in P's node set, *)
(* whatever the other partitions hold.                                         *)
C1_CounterIsCutSize ==
    (Returned /\ GraphRead) =>
        /\ Len(cut_edges_count) = Len(nodes_by_partition)
        /\ \A p \in Partitions :
              Counter(p) = Cardinality({k \in 1..Len(graph_data) :
                                           IsCutEdge(graph_data[k], NodeSet(p))})

(* two overlapping partitions, an endpoint that is in no partition, a counter of 2 *)
C1_Witness ==
    /\ Returned /\ GraphRead
    /\ \E p, q \in Partitions : p # q /\ NodeSet(p) \cap NodeSet(q) # {} /\ Counter(p) = 2
    /\ \E k \in 1..Len(graph_data) : \E u, v \in AllTexts :
          /\ IsEdge(graph_data[k], u, v)
          /\ \A p \in Partitions : v \notin NodeSet(p)

(* C2: when the graph was read and there is a partition, the returned label is *)
(* the first partition file, in the order of the list, whose counter is the    *)
(* maximum.                                                                    *)
C2_ArgmaxIsFirstMaximum ==
    (Returned /\ GraphRead /\ Len(nodes_by_partition) >= 1) =>
        LET supplied == {i \in 1..Len(files) : Has(cut_edges_count, PathNames[i])}
            count(i) == Get(cut_edges_count, PathNames[i])
        IN  \E i \in supplied :
                /\ max_partition = PathNames[i]
                /\ \A j \in supplied : count(j) <= count(i)
                /\ \A j \in supplied : j < i => count(j) < count(i)

(* the second and the third file tie on the maximum, above the first *)
C2_Witness ==
    /\ Returned /\ GraphRead
    /\ Len(files) = 3
    /\ Get(cut_edges_count, PathNames[1]) = 0
    /\ Get(cut_edges_count, PathNames[2]) = 1
    /\ Get(cut_edges_count, PathNames[3]) = 1
    /\ max_partition = PathNames[2]

(* C4: when the graph file cannot be read, the call returns (it does not raise) *)
(* one counter per partition, each 0, and no argmax partition.                  *)
C4_UnreadableGraphGivesZeros ==
    (~GraphRead /\ pc \notin {"extract", "balance", "cut"} /\ exc # "ValueError") =>
        /\ pc # "scan"
        /\ max_partition = None
        /\ Len(cut_edges_count) = Len(nodes_by_partition)
        /\ \A p \in Partitions : Has(cut_edges_count, Label(p)) /\ Counter(p) = 0

C4_Witness ==
    /\ ~GraphRead
    /\ pc = "report"
    /\ Len(nodes_by_partition) = 2
    /\ max_partition = None

(* C6: with at least one partition every count is the size of the partition's  *)
(* node set and diff is the largest count minus the smallest; with no partition *)
(* the call raises.                                                             *)
C6_CountsAndDiff ==
    (pc \notin {"extract", "balance"}) =>
        IF Len(nodes_by_partition) = 0
        THEN pc = "crashed" /\ exc = "ValueError"
        ELSE LET size == [p \in Partitions |-> Cardinality(NodeSet(p))]
             IN  /\ Len(node_counts) = Len(nodes_by_partition)
                 /\ \A p \in Partitions : Get(node_counts, Label(p)) = size[p]
                 /\ \E a, b \in Partitions :
                       /\ diff = size[a] - size[b]
                       /\ \A c \in Partitions : size[c] <= size[a] /\ size[b] <= size[c]
                 /\ diff >= 0
                 /\ (\A a, b \in Partitions : size[a] = size[b]) => diff = 0

(* three partitions, the first neither the largest nor the smallest *)
C6_Witness ==
    /\ pc = "cut"
    /\ Len(nodes_by_partition) = 3
    /\ Cardinality(NodeSet(1)) = 1
    /\ diff = 2


(* One pass of the body of `for line in graph_data` *)
ScannedEdge(u, v) ==
    /\ pc = "scan"
    /\ line_no' = line_no + 1
    /\ IsEdge(graph_data[line_no], u, v)

CounterAfter(p) == Get(cut_edges_count', Label(p))

(* C9 as stated: an edge with one endpoint in P and the other in a distinct Q  *)
(* adds 1 to P and to Q and changes no other counter; an edge with both        *)
(* endpoints in P leaves P's counter as it is.  (Read in the narrowest way:    *)
(* neither P nor Q holds both endpoints.)                                      *)
C9_AsStated ==
    [][\A u, v \in AllTexts : ScannedEdge(u, v) =>
          /\ \A p, q \in Partitions :
                (/\ p # q
                 /\ u \in NodeSet(p) /\ v \notin NodeSet(p)
                 /\ v \in NodeSet(q) /\ u \notin NodeSet(q)) =>
                    /\ CounterAfter(p) = Counter(p) + 1
                    /\ CounterAfter(q) = Counter(q) + 1
                    /\ \A r \in Partitions \ {p, q} : CounterAfter(r) = Counter(r)
          /\ \A p \in Partitions :
                (u \in NodeSet(p) /\ v \in NodeSet(p)) => CounterAfter(p) = Counter(p)
      ]_vars

(* C9, amended: the two partitions each hold one endpoint only, and a third   *)
(* partition is left alone when it holds both endpoints or neither (it gains 1 *)
(* when it holds exactly one).                                                 *)
C9_PerEdge ==
    [][\A u, v \in AllTexts : ScannedEdge(u, v) =>
          /\ \A p, q \in Partitions :
                (/\ p # q
                 /\ u \in NodeSet(p) /\ v \notin NodeSet(p)
                 /\ v \in NodeSet(q) /\ u \notin NodeSet(q)) =>
                    /\ CounterAfter(p) = Counter(p) + 1
                    /\ CounterAfter(q) = Counter(q) + 1
                    /\ \A r \in Partitions \ {p, q} :
                          CounterAfter(r) = Counter(r)
                              + (IF ExactlyOne(u, v, NodeSet(r)) THEN 1 ELSE 0)
          /\ \A p \in Partitions :
                (u \in NodeSet(p) /\ v \in NodeSet(p)) => CounterAfter(p) = Counter(p)
      ]_vars

(* the first line, an edge from P to Q, has been scanned: P and Q stand at 1, *)
(* a third partition that holds both endpoints at 0                            *)
C9_Witness ==
    /\ pc = "scan"
    /\ line_no = 2
    /\ Len(nodes_by_partition) = 3
    /\ \E u, v \in NodeTexts :
          /\ IsEdge(graph_data[1], u, v)
          /\ \E p, q, r \in Partitions :
                /\ p # q /\ r \notin {p, q}
                /\ u \in NodeSet(p) /\ v \notin NodeSet(p)
                /\ v \in NodeSet(q) /\ u \notin NodeSet(q)
                /\ u \in NodeSet(r) /\ v \in NodeSet(r)
                /\ Counter(p) = 1 /\ Counter(q) = 1 /\ Counter(r) = 0

(* C3: a partition file that cannot be read is reported and skipped; every     *)
(* readable file of the list, before or after it, has its entry in the result. *)
C3_OnlyFailingFileSkipped ==
    (pc # "extract") =>
        /\ ExtractRaised(files) =>
              \E k \in 1..Len(out) : out[k].what = "Error processing files"
        /\ \A i \in 1..Len(files) : files[i].ok => Has(nodes_by_partition, PathNames[i])

(* C5: when the graph file cannot be read, the run prints the node counts and  *)
(* the difference and ends normally, its last line marking the partition with  *)
(* the most cut edges as unavailable.                                          *)
C5_UnavailableReported ==
    (~GraphRead /\ Len(nodes_by_partition) >= 1 /\ pc \in {"done", "crashed"}) =>
        /\ pc = "done"
        /\ exc = None
        /\ \E k \in 1..Len(out) : out[k].what = "Difference"
        /\ out[Len(out)].what = "The partition with the most cut edges is"
        /\ out[Len(out)].file = None

(* the number a node text denotes *)
NodeId(text) == CASE text = "1" -> 1 [] text = "1.0" -> 1 [] text = "2" -> 2

(* C7: node texts that denote the same number are one node: a partition's set  *)
(* holds it once, and an edge endpoint is a member of the set when the set     *)
(* holds a text of the same number.                                            *)
C7_NodeIdsCanonical ==
    /\ (pc # "extract") =>
          \A p \in Partitions : \A a, b \in NodeSet(p) : NodeId(a) = NodeId(b) => a = b
    /\ (Returned /\ GraphRead) =>
          \A p \in Partitions :
              Counter(p) = Cardinality({k \in 1..Len(graph_data) :
                              \E u, v \in LayoutTexts :
                                  /\ IsEdge(graph_data[k], u, v)
                                  /\ ExactlyOne(NodeId(u), NodeId(v),
                                                {NodeId(t) : t \in NodeSet(p)})})

(* C8: the node set of a partition file in the result is the set of the texts *)
(* of all init_node and term_node fields of the file.                          *)
C8_AllFieldsExtracted ==
    (pc # "extract") =>
        \A i \in 1..Len(files) :
            Has(nodes_by_partition, PathNames[i]) =>
                Get(nodes_by_partition, PathNames[i])
                    = {files[i].lines[k][j].text :
                          <<k, j>> \in {kj \in (1..LayoutLines) \X (1..LayoutTokens) :
                                           /\ kj[1] <= Len(files[i].lines)
                                           /\ kj[2] <= Len(files[i].lines[kj[1]])}}

(* C10: generate_geojson raises when num_edges exceeds n(n-1)/2, before it     *)
(* builds anything; a graph it returns has num_edges features, each between    *)
(* two different nodes of 1..num_nodes, no two between the same two nodes.     *)
C10_GeneratedEdges ==
    /\ (gen_pc \notin {"idle", "validate"} /\ 2 * num_edges > num_nodes * (num_nodes - 1)) =>
          gen_pc = "raised" /\ gen_exc = "ValueError" /\ edges = {} /\ features = <<>>
    /\ (gen_pc = "raised") => 2 * num_edges > num_nodes * (num_nodes - 1)
    /\ (gen_pc = "returned") =>
          /\ Len(features) = num_edges
          /\ \A i \in 1..Len(features) :
                /\ features[i].init_node \in 1..num_nodes
                /\ features[i].term_node \in 1..num_nodes
                /\ features[i].init_node # features[i].term_node
          /\ \A i, j \in 1..Len(features) :
                {features[i].init_node, features[i].term_node}
                    = {features[j].init_node, features[j].term_node} => i = j

(* the complete graph on three nodes has been returned *)
C10_Witness ==
    /\ gen_pc = "returned"
    /\ num_nodes = 3
    /\ num_edges = 3
    /\ Len(features) = 3

============================================================================
